---------------------------- MODULE Spec2Model ----------------------------
(***************************************************************************)
(* Model of the ubicity WASM kernel (src/wasm/src/lib.rs): the experience  *)
(* validator, the domain co-occurrence network builder and the Jaccard     *)
(* similarity scorer.  The kernel keeps no state between calls besides the *)
(* validator's strict_mode flag, so the state is that flag together with   *)
(* the arguments and the return value of the most recent call.             *)
(*                                                                         *)
(* Encodings.  A JSON text is modelled by the value it denotes, tagged     *)
(* with its JSON type (a text that is not JSON at all is JMalformed).      *)
(* Field strings of a record are TLA+ strings; domain strings are finite   *)
(* sequences of character codes, so that Rust's lexicographic String       *)
(* ordering can be computed.  An f64 coordinate is a fixed-point integer   *)
(* in units of 1/10000 degree; an f64 quotient of two counts is the        *)
(* fraction in lowest terms.  A Vec collected from a HashMap, whose order  *)
(* is unspecified, is a bag.                                               *)
(***************************************************************************)
EXTENDS Integers, Sequences, FiniteSets, Bags, TLC

VARIABLES strict_mode, op, args, ret

vars == <<strict_mode, op, args, ret>>

(***************************************************************************)
(* Bounds of the model.                                                    *)
(***************************************************************************)
\* how far (in 1/10000 degree) beyond a coordinate bound the inputs reach
MaxExcess == 1
\* longest batch of experiences given to generate_domain_network
MaxExperiences == 2
\* longest domains list of one experience (besides LongLists)
MaxDomains == 2
\* longest input sequence of jaccard_similarity
MaxLen == 3

(***************************************************************************)
(* Result<T, E> and Option<T>.                                             *)
(***************************************************************************)
Ok(v) == [ok |-> TRUE, v |-> v]

Err(e) == [ok |-> FALSE, e |-> e]

Some(v) == [some |-> TRUE, v |-> v]

None == [some |-> FALSE]

(***************************************************************************)
(* JSON texts.                                                             *)
(***************************************************************************)
JMalformed == [t |-> "malformed"]

JNull == [t |-> "null"]

JStr(s) == [t |-> "string", s |-> s]

JNum(n) == [t |-> "number", n |-> n]

JObj(f) == [t |-> "object", o |-> f]

JArr(a) == [t |-> "array", a |-> a]

\* the object obj without the key k
Without(obj, k) == JObj([x \in (DOMAIN obj.o) \ {k} |-> obj.o[x]])

\* the object obj with the key k set to j
With(obj, k, j) ==
    JObj([x \in (DOMAIN obj.o) \cup {k} |-> IF x = k THEN j ELSE obj.o[x]])

\* f64 literal of d whole degrees, in units of 1/10000 degree
Deg(d) == d * 10000


(***************************************************************************)
(* serde_json::from_str for the derived Deserialize implementations.  A    *)
(* struct is read from an object: a required key that is absent is an      *)
(* error, an Option key that is absent or null is None, a value of the     *)
(* wrong JSON type is an error, unknown keys are ignored.  The first       *)
(* failing field, in declaration order, gives the error.                   *)
(***************************************************************************)
missing_field(k) == Err("missing field " \o k)

invalid_type(j, expected) ==
    Err("invalid type: " \o j.t \o ", expected " \o expected)

\* F applied to the value of e, which is computed once
Bind(e, F(_)) == CHOOSE r \in {F(x) : x \in {e}} : TRUE

\* the ? of a Result: F applied to the value of an Ok, an Err passed on
AndThen(result, F(_)) ==
    LET G(r) == IF r.ok THEN F(r.v) ELSE r IN Bind(result, G)

Required(j, k, de(_)) ==
    IF k \in DOMAIN j.o THEN de(j.o[k]) ELSE missing_field(k)

Optional(j, k, de(_)) ==
    IF k \notin DOMAIN j.o THEN Ok(None)
    ELSE IF j.o[k].t = "null" THEN Ok(None)
    ELSE AndThen(de(j.o[k]), LAMBDA v : Ok(Some(v)))

de_String(j) ==
    IF j.t = "string" THEN Ok(j.s) ELSE invalid_type(j, "a string")

de_f64(j) ==
    IF j.t = "number" THEN Ok(j.n) ELSE invalid_type(j, "f64")

RECURSIVE de_Vec(_, _, _, _)
\* a Vec read from the array a, from element k on, after the elements vec
de_Vec(a, de(_), k, vec) ==
    IF k > Len(a) THEN Ok(vec)
    ELSE AndThen(de(a[k]), LAMBDA v : de_Vec(a, de, k + 1, Append(vec, v)))

de_VecString(j) ==
    IF j.t # "array" THEN invalid_type(j, "a sequence")
    ELSE de_Vec(j.a, de_String, 1, <<>>)

de_Coordinates(j) ==
    IF j.t # "object" THEN invalid_type(j, "struct Coordinates")
    ELSE AndThen(Required(j, "latitude", de_f64), LAMBDA latitude :
         AndThen(Required(j, "longitude", de_f64), LAMBDA longitude :
         Ok([latitude |-> latitude, longitude |-> longitude])))

de_Location(j) ==
    IF j.t # "object" THEN invalid_type(j, "struct Location")
    ELSE AndThen(Required(j, "name", de_String), LAMBDA name :
         AndThen(Optional(j, "coordinates", de_Coordinates),
                 LAMBDA coordinates :
         Ok([name |-> name, coordinates |-> coordinates])))

de_Context(j) ==
    IF j.t # "object" THEN invalid_type(j, "struct Context")
    ELSE AndThen(Required(j, "location", de_Location), LAMBDA location :
         Ok([location |-> location]))

de_Learner(j) ==
    IF j.t # "object" THEN invalid_type(j, "struct Learner")
    ELSE AndThen(Required(j, "id", de_String), LAMBDA id : Ok([id |-> id]))

\* the wire key of type_field is "type" (serde rename)
de_ExperienceData(j) ==
    IF j.t # "object" THEN invalid_type(j, "struct ExperienceData")
    ELSE AndThen(Required(j, "type", de_String), LAMBDA type_field :
         AndThen(Required(j, "description", de_String), LAMBDA description :
         AndThen(Optional(j, "domains", de_VecString), LAMBDA domains :
         Ok([type_field  |-> type_field,
             description |-> description,
             domains     |-> domains]))))

de_Experience(j) ==
    IF j.t # "object" THEN invalid_type(j, "struct Experience")
    ELSE AndThen(Required(j, "id", de_String), LAMBDA id :
         AndThen(Required(j, "timestamp", de_String), LAMBDA timestamp :
         AndThen(Required(j, "learner", de_Learner), LAMBDA learner :
         AndThen(Required(j, "context", de_Context), LAMBDA context :
         AndThen(Required(j, "experience", de_ExperienceData),
                 LAMBDA experience :
         Ok([id         |-> id,
             timestamp  |-> timestamp,
             learner    |-> learner,
             context    |-> context,
             experience |-> experience]))))))

de_VecExperience(j) ==
    IF j.t # "array" THEN invalid_type(j, "a sequence")
    ELSE de_Vec(j.a, de_Experience, 1, <<>>)

from_str_Experience(json) ==
    IF json.t = "malformed" THEN Err("expected value") ELSE de_Experience(json)

from_str_VecExperience(json) ==
    IF json.t = "malformed" THEN Err("expected value")
    ELSE de_VecExperience(json)

from_str_VecString(json) ==
    IF json.t = "malformed" THEN Err("expected value") ELSE de_VecString(json)

(***************************************************************************)
(* serde_json::to_string of ValidationResult, DomainNetwork and their      *)
(* parts: each struct is written as an object under its field names, and   *)
(* writing booleans, strings and unsigned integers cannot fail.  The       *)
(* object is the record itself.                                            *)
(***************************************************************************)
to_string(value) == Ok(value)

(***************************************************************************)
(* ExperienceValidator                                                     *)
(***************************************************************************)
is_empty(s) == Len(s) = 0

\* the pushes of validate_experience, one operator per check
push_if(errors, violated, message) ==
    IF violated THEN Append(errors, message) ELSE errors

\* faulty variant: the latitude bounds taken as exclusive
latitude_out_of_range_exclusive(latitude) ==
    latitude <= Deg(-90) \/ latitude >= Deg(90)

latitude_out_of_range(latitude) ==
    latitude < Deg(-90) \/ latitude > Deg(90)

longitude_out_of_range(longitude) ==
    longitude < Deg(-180) \/ longitude > Deg(180)

check_coordinates(errors, coordinates) ==
    IF coordinates.some
    THEN LET coords == coordinates.v
             e1 == push_if(errors, latitude_out_of_range(coords.latitude),
                           "latitude must be between -90 and 90")
         IN  push_if(e1, longitude_out_of_range(coords.longitude),
                     "longitude must be between -180 and 180")
    ELSE errors

\* faulty variant: the required-field checks chained with else, stopping at the first
check_required_short_circuit(exp) ==
    IF is_empty(exp.id) THEN <<"id is required">>
    ELSE IF is_empty(exp.timestamp) THEN <<"timestamp is required">>
    ELSE IF is_empty(exp.learner.id) THEN <<"learner.id is required">>
    ELSE IF is_empty(exp.context.location.name)
         THEN <<"context.location.name is required">>
    ELSE IF is_empty(exp.experience.type_field)
         THEN <<"experience.type is required">>
    ELSE IF is_empty(exp.experience.description)
         THEN <<"experience.description is required">>
    ELSE <<>>

check_required(exp) ==
    LET e1 == push_if(<<>>, is_empty(exp.id), "id is required")
        e2 == push_if(e1, is_empty(exp.timestamp), "timestamp is required")
        e3 == push_if(e2, is_empty(exp.learner.id), "learner.id is required")
        e4 == push_if(e3, is_empty(exp.context.location.name),
                      "context.location.name is required")
        e5 == push_if(e4, is_empty(exp.experience.type_field),
                      "experience.type is required")
    IN  push_if(e5, is_empty(exp.experience.description),
                "experience.description is required")

\* faulty variant: valid set before the coordinate checks, from the required fields
make_result_stale_valid(errors) ==
    [valid  |-> \A i \in 1..Len(errors) :
                   errors[i] \notin {"latitude must be between -90 and 90",
                                     "longitude must be between -180 and 180"},
     errors |-> errors]

make_result(errors) == [valid |-> (errors = <<>>), errors |-> errors]

validate_experience(self, exp) ==
    Bind(check_coordinates(check_required(exp),
                           exp.context.location.coordinates),
         make_result)

\* faulty variant: the decoder's message passed on without the prefix
parse_error_result_no_prefix(e) == [valid |-> FALSE, errors |-> <<e>>]

parse_error_result(e) ==
    [valid |-> FALSE, errors |-> <<"Parse error: " \o e>>]

validate(self, json) ==
    LET match(result) ==
            IF result.ok
            THEN to_string(validate_experience(self, result.v))
            ELSE to_string(parse_error_result(result.e))
    IN  Bind(from_str_Experience(json), match)

(***************************************************************************)
(* Domain network                                                          *)
(***************************************************************************)
\* String's Ord: a > b, lexicographic over the characters
StrGt(a, b) ==
    \E i \in 1..Len(a) :
        /\ \A k \in 1..(i - 1) : k <= Len(b) /\ a[k] = b[k]
        /\ (i > Len(b) \/ (i <= Len(b) /\ a[i] > b[i]))

\* the empty HashMap
EmptyMap == [k \in {} |-> 0]

\* faulty variant: the entry set to 1 on every visit instead of incremented
Overwrite(map, key) ==
    LET entry(m) == [k \in (DOMAIN m) \cup {key} |-> IF k = key THEN 1 ELSE m[k]]
    IN  Bind(map, entry)

\* *map.entry(key).or_insert(0) += 1
Increment(map, key) ==
    LET entry(m) ==
            [k \in (DOMAIN m) \cup {key} |->
                IF k = key THEN (IF key \in DOMAIN m THEN m[key] ELSE 0) + 1
                ELSE m[k]]
    IN  Bind(map, entry)

\* faulty variant: the pair kept in list order
canonical_pair_unordered(a, b) == <<a, b>>

\* faulty variant: the swap taken on the wrong comparison
canonical_pair_reversed(a, b) == IF StrGt(b, a) THEN <<b, a>> ELSE <<a, b>>

\* the pair of two domains, the smaller string first
canonical_pair(a, b) == IF StrGt(a, b) THEN <<b, a>> ELSE <<a, b>>

RECURSIVE count_nodes_once_per_record(_, _, _)
\* faulty variant: a domain counted once per record, its repetitions skipped
count_nodes_once_per_record(nodes, domains, k) ==
    IF k > Len(domains) THEN nodes
    ELSE IF \E h \in 1..(k - 1) : domains[h] = domains[k]
         THEN count_nodes_once_per_record(nodes, domains, k + 1)
         ELSE count_nodes_once_per_record(Increment(nodes, domains[k]),
                                          domains, k + 1)

RECURSIVE count_nodes(_, _, _)
\* the loop over domains, from position k on
count_nodes(nodes, domains, k) ==
    IF k > Len(domains) THEN nodes
    ELSE count_nodes(Increment(nodes, domains[k]), domains, k + 1)

RECURSIVE count_edges(_, _, _, _)
\* the loops over i and j > i, from (i, j) on (positions from 1)
count_edges(edges, domains, i, j) ==
    IF i > Len(domains) THEN edges
    ELSE IF j > Len(domains) THEN count_edges(edges, domains, i + 1, i + 2)
    ELSE count_edges(Increment(edges, canonical_pair(domains[i], domains[j])),
                     domains, i, j + 1)

RECURSIVE count_experiences(_, _, _, _)
\* the loop over experiences, from record n on; yields both maps
count_experiences(nodes, edges, experiences, n) ==
    IF n > Len(experiences) THEN [nodes |-> nodes, edges |-> edges]
    ELSE LET domains == experiences[n].experience.domains
         IN  IF domains.some
             THEN count_experiences(count_nodes(nodes, domains.v, 1),
                                    count_edges(edges, domains.v, 1, 2),
                                    experiences, n + 1)
             ELSE count_experiences(nodes, edges, experiences, n + 1)

NetworkNode(id, size) == [id |-> id, size |-> size]

NetworkEdge(source, target, weight) ==
    [source |-> source, target |-> target, weight |-> weight]

\* a Vec collected from a map's entries, in the map's unspecified order
collect(entries) == [e \in entries |-> 1]

build_network(experiences) ==
    LET network(maps) ==
            [nodes |-> collect({NetworkNode(id, maps.nodes[id]) :
                                  id \in DOMAIN maps.nodes}),
             edges |-> collect({NetworkEdge(pair[1], pair[2], maps.edges[pair]) :
                                  pair \in DOMAIN maps.edges})]
    IN  Bind(count_experiences(EmptyMap, EmptyMap, experiences, 1), network)

generate_domain_network(experiences_json) ==
    LET match(experiences) ==
            IF experiences.ok THEN to_string(build_network(experiences.v))
            ELSE Err(experiences.e)
    IN  Bind(from_str_VecExperience(experiences_json), match)

(***************************************************************************)
(* Jaccard similarity                                                      *)
(***************************************************************************)
RECURSIVE GCD(_, _)
GCD(a, b) == IF b = 0 THEN a ELSE GCD(b, a % b)

\* the f64 0.0
Zero == [num |-> 0, den |-> 1]

\* a as f64 / b as f64 for counts a and b > 0: the fraction in lowest terms
div_f64(a, b) == [num |-> a \div GCD(a, b), den |-> b \div GCD(a, b)]

RECURSIVE collect_HashSet(_, _)
\* Vec::into_iter().collect() into a HashSet, from position k on
collect_HashSet(vec, k) ==
    IF k > Len(vec) THEN {} ELSE {vec[k]} \cup collect_HashSet(vec, k + 1)

\* set1.intersection(&set2).count(): the elements of set1 that set2 contains
intersection_count(set1, set2) == Cardinality({x \in set1 : x \in set2})

\* faulty variant: the sizes added, the shared elements counted twice
union_count_with_overlap(set1, set2) == Cardinality(set1) + Cardinality(set2)

\* faulty variant: the size of the first set taken for the union's
union_count_first_only(set1, set2) ==
    IF Cardinality(set1) = 0 THEN Cardinality(set2) ELSE Cardinality(set1)

\* set1.union(&set2).count(): set1, then the elements of set2 not in set1
union_count(set1, set2) ==
    Cardinality(set1) + Cardinality({x \in set2 : x \notin set1})

jaccard_similarity(set1_json, set2_json) ==
    LET ratio(sets) ==
            LET intersection == intersection_count(sets[1], sets[2])
                union == union_count(sets[1], sets[2])
            IN  IF union = 0 THEN Ok(Zero)
                ELSE Ok(div_f64(intersection, union))
    IN  AndThen(from_str_VecString(set1_json), LAMBDA vec1 :
        AndThen(from_str_VecString(set2_json), LAMBDA vec2 :
        Bind(<<collect_HashSet(vec1, 1), collect_HashSet(vec2, 1)>>, ratio)))

(***************************************************************************)
(* The texts the host hands to validate.                                   *)
(***************************************************************************)
FieldStrings == {"", "x"}

\* zero, the two bounds of a range, and the values within MaxExcess of them
CoordValues(max) ==
    {0} \cup UNION {{b - e, b, b + e} : b \in {-max, max}, e \in 1..MaxExcess}

CoordinatesTexts ==
    {JObj([latitude |-> JNum(lat), longitude |-> JNum(lon)]) :
        lat \in CoordValues(Deg(90)), lon \in CoordValues(Deg(180))}

LocationTexts(name) ==
    {JObj([name |-> JStr(name)]),
     JObj([name |-> JStr(name), coordinates |-> JNull])}
    \cup {JObj([name |-> JStr(name), coordinates |-> c]) :
            c \in CoordinatesTexts}

ExperienceText(id, timestamp, learner_id, location, type_field, description) ==
    JObj([id         |-> JStr(id),
          timestamp  |-> JStr(timestamp),
          learner    |-> JObj([id |-> JStr(learner_id)]),
          context    |-> JObj([location |-> location]),
          experience |-> JObj([type        |-> JStr(type_field),
                               description |-> JStr(description)])])

\* a text that decodes, with one defect that makes the decoding fail
DefectsOf(base) ==
    LET learner     == base.o.learner
        context     == base.o.context
        location    == context.o.location
        coordinates == JObj([latitude |-> JNum(0), longitude |-> JNum(0)])
        experience  == base.o.experience
        InLocation(l) == With(base, "context", With(context, "location", l))
    IN  {Without(base, k) : k \in DOMAIN base.o}
        \cup {With(base, k, JNum(0)) : k \in DOMAIN base.o}
        \cup {With(base, k, JNull) : k \in DOMAIN base.o}
        \cup {With(base, "learner", Without(learner, "id")),
              With(base, "learner", With(learner, "id", JNum(0))),
              With(base, "context", Without(context, "location")),
              With(base, "context", With(context, "location", JStr("x"))),
              InLocation(Without(location, "name")),
              InLocation(With(location, "name", JNum(0))),
              InLocation(With(location, "coordinates", JStr("x"))),
              InLocation(With(location, "coordinates",
                              Without(coordinates, "latitude"))),
              InLocation(With(location, "coordinates",
                              Without(coordinates, "longitude"))),
              InLocation(With(location, "coordinates",
                              With(coordinates, "latitude", JStr("x")))),
              InLocation(With(location, "coordinates",
                              With(coordinates, "longitude", JNull))),
              With(base, "experience", Without(experience, "type")),
              With(base, "experience", Without(experience, "description")),
              With(base, "experience", With(experience, "type", JNum(0))),
              With(base, "experience",
                   With(experience, "domains", JStr("x"))),
              With(base, "experience",
                   With(experience, "domains", JArr(<<JNum(0)>>)))}

UndecodableTexts ==
    {JMalformed, JNull, JNum(0), JStr("x"), JArr(<<>>)}
    \cup DefectsOf(ExperienceText("x", "x", "x",
                                  JObj([name |-> JStr("x")]), "x", "x"))
    \cup DefectsOf(ExperienceText("", "", "",
                                  JObj([name |-> JStr("")]), "", ""))

(***************************************************************************)
(* The texts the host hands to generate_domain_network and to              *)
(* jaccard_similarity.  Strings: "a" = <<1>>, "aa" = <<1, 1>>, "b" = <<2>>. *)
(***************************************************************************)
\* the domains of the enumerated lists
DomainStrings == {<<1>>, <<2>>}

\* the elements of the inputs of jaccard_similarity
SetStrings == {<<1>>, <<1, 1>>, <<2>>}

StringLists(strings, max) == UNION {[1..k -> strings] : k \in 0..max}

VecStringText(list) == JArr([k \in 1..Len(list) |-> JStr(list[k])])

\* a record that validates, with the given domains list or none
ExperienceWithDomains(domains) ==
    LET base == ExperienceText("x", "x", "x", JObj([name |-> JStr("x")]),
                               "x", "x")
    IN  IF domains.some
        THEN With(base, "experience",
                  With(base.o.experience, "domains", VecStringText(domains.v)))
        ELSE base

\* further lists, with a third domain that has another as a prefix: two in
\* descending order, one repeated around another, three distinct in
\* descending order, one domain three times
LongLists == {<<<<1, 1>>, <<1>>>>, <<<<2>>, <<1, 1>>>>,
              <<<<1>>, <<2>>, <<1>>>>, <<<<2>>, <<1, 1>>, <<1>>>>,
              <<<<1, 1>>, <<1, 1>>, <<1, 1>>>>}

DomainsChoices ==
    {None} \cup {Some(list) :
                   list \in StringLists(DomainStrings, MaxDomains) \cup LongLists}

UndecodableBatches ==
    {JMalformed, JNull, JObj([id |-> JStr("x")]),
     JArr(<<ExperienceWithDomains(None), JNull>>),
     JArr(<<Without(ExperienceWithDomains(Some(<<>>)), "learner")>>)}

UndecodableSets == {JMalformed, JNull, JArr(<<JNum(0)>>), JStr("x")}

(***************************************************************************)
(* State machine.                                                          *)
(***************************************************************************)
\* ExperienceValidator::new has run with either flag; no call is in progress
Init ==
    /\ strict_mode \in BOOLEAN
    /\ op = "none"
    /\ args = <<>>
    /\ ret = Ok(<<>>)

\* the host calls validate and holds the returned text; the text is one that
\* decodes, over the field strings and coordinate values, or one that does not
Validate ==
    /\ op = "none"
    /\ \E f \in [1..6 -> FieldStrings] :
       \E json \in UndecodableTexts \cup
                   {ExperienceText(f[1], f[2], f[3], loc, f[5], f[6]) :
                       loc \in LocationTexts(f[4])} :
        /\ op' = "validate"
        /\ args' = <<json>>
        /\ ret' = validate([strict_mode |-> strict_mode], json)
        /\ UNCHANGED strict_mode

\* the host calls generate_domain_network with a batch of at most
\* MaxExperiences records, or with a text that is no batch
GenerateDomainNetwork ==
    /\ op = "none"
    /\ \E n \in 0..MaxExperiences :
       \E choice \in [1..n -> DomainsChoices] :
       \E json \in (IF n = 0 THEN UndecodableBatches ELSE {}) \cup
                   {JArr([i \in 1..n |-> ExperienceWithDomains(choice[i])])} :
        /\ op' = "generate_domain_network"
        /\ args' = <<json>>
        /\ ret' = generate_domain_network(json)
        /\ UNCHANGED strict_mode

\* the host calls jaccard_similarity with two string arrays of at most MaxLen
\* elements, or with a text that is no string array
JaccardSimilarity ==
    /\ op = "none"
    /\ \E list1 \in StringLists(SetStrings, MaxLen),
          list2 \in StringLists(SetStrings, MaxLen) :
       \E json1 \in (IF list1 = <<>> THEN UndecodableSets ELSE {})
                    \cup {VecStringText(list1)},
          json2 \in (IF list2 = <<>> THEN UndecodableSets ELSE {})
                    \cup {VecStringText(list2)} :
        /\ op' = "jaccard_similarity"
        /\ args' = <<json1, json2>>
        /\ ret' = jaccard_similarity(json1, json2)
        /\ UNCHANGED strict_mode

\* the host is done with the result: nothing of a call outlives it
Discard ==
    /\ op # "none"
    /\ op' = "none"
    /\ args' = <<>>
    /\ ret' = Ok(<<>>)
    /\ UNCHANGED strict_mode

Next == Validate \/ GenerateDomainNetwork \/ JaccardSimilarity \/ Discard

Spec == Init /\ [][Next]_vars

(***************************************************************************)
(* Claims about validate.                                                  *)
(***************************************************************************)
Range(seq) == {seq[i] : i \in 1..Len(seq)}

Validated == op = "validate"

\* the text of the call in progress decodes into an Experience
Parsed == Validated /\ from_str_Experience(args[1]).ok

RequiredMessages ==
    {"id is required", "timestamp is required", "learner.id is required",
     "context.location.name is required", "experience.type is required",
     "experience.description is required"}

LatitudeMessage == "latitude must be between -90 and 90"

LongitudeMessage == "longitude must be between -180 and 180"

LocationOf(json) == json.o.context.o.location

HasCoordinates(json) ==
    /\ "coordinates" \in DOMAIN LocationOf(json).o
    /\ LocationOf(json).o.coordinates.t = "object"

LatitudeOf(json) == LocationOf(json).o.coordinates.o.latitude.n

LongitudeOf(json) == LocationOf(json).o.coordinates.o.longitude.n

\* the eight checks in their fixed order, each with whether the text violates it
ChecksOf(json) ==
    << <<"id is required", json.o.id.s = "">>,
       <<"timestamp is required", json.o.timestamp.s = "">>,
       <<"learner.id is required", json.o.learner.o.id.s = "">>,
       <<"context.location.name is required", LocationOf(json).o.name.s = "">>,
       <<"experience.type is required", json.o.experience.o.type.s = "">>,
       <<"experience.description is required",
         json.o.experience.o.description.s = "">>,
       <<LatitudeMessage,
         HasCoordinates(json) /\ LatitudeOf(json) \notin Deg(-90)..Deg(90)>>,
       <<LongitudeMessage,
         HasCoordinates(json) /\ LongitudeOf(json) \notin Deg(-180)..Deg(180)>> >>

ViolatedMessages(json) ==
    LET Violated(c) == c[2]
        sel == SelectSeq(ChecksOf(json), Violated)
    IN  [i \in 1..Len(sel) |-> sel[i][1]]

\* C1: for a text that parses, the errors returned are exactly the messages of
\* the violated checks in the fixed order id, timestamp, learner.id,
\* context.location.name, experience.type, experience.description, latitude,
\* longitude (every check runs, whatever the others found), and valid is false
\* when at least one check is violated.
C1_ErrorsAreViolatedChecks ==
    Parsed =>
        /\ ret.ok
        /\ ret.v.errors = ViolatedMessages(args[1])
        /\ \A i \in 1..6 :
              (ChecksOf(args[1])[i][1] \in Range(ret.v.errors))
                  <=> ChecksOf(args[1])[i][2]
        /\ (ViolatedMessages(args[1]) # <<>> => ret.v.valid = FALSE)

\* all eight checks violated at once, and all eight messages returned
C1_Witness ==
    /\ Parsed
    /\ \A i \in 1..8 : ChecksOf(args[1])[i][2]
    /\ Len(ret.v.errors) = 8

\* C2: for a text that does not decode into an Experience, validate still
\* returns a result (not a boundary failure), with valid false and exactly one
\* error, which begins with "Parse error:" and is none of the field messages.
C2_ParseFailureIsOneSoftError ==
    (Validated /\ ~Parsed) =>
        /\ ret.ok
        /\ ret.v.valid = FALSE
        /\ Len(ret.v.errors) = 1
        /\ SubSeq(ret.v.errors[1], 1, Len("Parse error:")) = "Parse error:"
        /\ Range(ret.v.errors) \cap
              (RequiredMessages \cup {LatitudeMessage, LongitudeMessage}) = {}

\* a record with an empty id and no learner object: only the parse error
C2_Witness ==
    /\ Validated
    /\ args[1].t = "object"
    /\ "learner" \notin DOMAIN args[1].o
    /\ args[1].o.id = JStr("")
    /\ ~Parsed
    /\ ret.v.errors = <<"Parse error: missing field learner">>

\* C3: in every result of validate, on the parse-success and the
\* parse-failure path and for either strict_mode, valid is true iff errors is
\* empty.
C3_ValidIffNoErrors ==
    Validated => (ret.ok /\ (ret.v.valid <=> Len(ret.v.errors) = 0))

\* strict mode, a record whose only violation is an out-of-range longitude
C3_Witness ==
    /\ Parsed
    /\ strict_mode
    /\ ret.v.errors = <<LongitudeMessage>>
    /\ ~ret.v.valid

\* C4: for a parsed record the coordinate checks are inclusive at the
\* bounds and independent: the latitude message is returned iff coordinates
\* are present and latitude < -90 or latitude > 90, the longitude message iff
\* coordinates are present and longitude < -180 or longitude > 180; a record
\* without coordinates gets neither.
C4_CoordinateBoundsInclusive ==
    Parsed =>
        /\ (LatitudeMessage \in Range(ret.v.errors)) <=>
              (HasCoordinates(args[1]) /\
                 (LatitudeOf(args[1]) < Deg(-90) \/ LatitudeOf(args[1]) > Deg(90)))
        /\ (LongitudeMessage \in Range(ret.v.errors)) <=>
              (HasCoordinates(args[1]) /\
                 (LongitudeOf(args[1]) < Deg(-180)
                    \/ LongitudeOf(args[1]) > Deg(180)))
        /\ (HasCoordinates(args[1]) /\ LatitudeOf(args[1]) \in {Deg(-90), Deg(90)})
              => LatitudeMessage \notin Range(ret.v.errors)
        /\ (HasCoordinates(args[1])
              /\ LongitudeOf(args[1]) \in {Deg(-180), Deg(180)})
              => LongitudeMessage \notin Range(ret.v.errors)

\* latitude exactly 90 with a longitude just beyond 180: only the longitude
\* message
C4_Witness ==
    /\ Parsed
    /\ HasCoordinates(args[1])
    /\ LatitudeOf(args[1]) = Deg(90)
    /\ LongitudeOf(args[1]) = Deg(180) + 1
    /\ LatitudeMessage \notin Range(ret.v.errors)
    /\ LongitudeMessage \in Range(ret.v.errors)

(***************************************************************************)
(* Claims about build_network.                                             *)
(***************************************************************************)
\* a batch that decodes was given to generate_domain_network
Built ==
    /\ op = "generate_domain_network"
    /\ from_str_VecExperience(args[1]).ok

\* the domains list of a record text, empty when it has none
DomainsIn(record) ==
    LET experience == record.o.experience.o
    IN  IF "domains" \in DOMAIN experience /\ experience.domains.t = "array"
        THEN [k \in 1..Len(experience.domains.a) |-> experience.domains.a[k].s]
        ELSE <<>>

Lists == [i \in 1..Len(args[1].a) |-> DomainsIn(args[1].a[i])]

AllDomains == UNION {Range(Lists[i]) : i \in 1..Len(Lists)}

\* the list positions (record, index) that hold d
Positions(d) ==
    UNION {{<<i, k>> : k \in {x \in 1..Len(Lists[i]) : Lists[i][x] = d}} :
             i \in 1..Len(Lists)}

\* the index pairs (record, k, l), k < l, whose two domains are s and t
PairPositions(s, t) ==
    UNION {{<<i, kl[1], kl[2]>> :
              kl \in {x \in (1..Len(Lists[i])) \X (1..Len(Lists[i])) :
                        /\ x[1] < x[2]
                        /\ {Lists[i][x[1]], Lists[i][x[2]]} = {s, t}}} :
             i \in 1..Len(Lists)}

\* the records whose list contains d
RecordsWith(d) == {i \in 1..Len(Lists) : d \in Range(Lists[i])}

\* some record's list holds d at two positions
Repeated(d) ==
    \E i \in 1..Len(Lists) :
        \E k, l \in 1..Len(Lists[i]) :
            k < l /\ Lists[i][k] = d /\ Lists[i][l] = d

Nodes == BagToSet(ret.v.nodes)

Edges == BagToSet(ret.v.edges)

\* a < b in string order: at the end of the longest common prefix, a has
\* ended and b has not, or a's next character is the smaller
StrLt(a, b) ==
    LET common == {k \in 0..Len(a) :
                     k <= Len(b) /\ \A h \in 1..k : a[h] = b[h]}
        m == CHOOSE k \in common : \A h \in common : h <= k
    IN  IF m = Len(a) THEN Len(b) > m
        ELSE IF m = Len(b) THEN FALSE
        ELSE a[m + 1] < b[m + 1]

\* C5: the network has a node for d iff d occurs in some record's domains
\* list, its size the number of list positions holding d over all records;
\* it has an edge for the pair {s,t} iff some record has indices i<j whose
\* domains are s and t, its weight the number of such index pairs over all
\* records; records without a list add nothing, a one-domain record adds
\* only to that node.
C5_NetworkCountsPositionsAndPairs ==
    Built =>
        /\ ret.ok
        /\ {n.id : n \in Nodes} = AllDomains
        /\ \A n \in Nodes : n.size = Cardinality(Positions(n.id))
        /\ \A s, t \in DomainStrings \cup AllDomains :
              (\E e \in Edges : {e.source, e.target} = {s, t})
                  <=> PairPositions(s, t) # {}
        /\ \A e \in Edges :
              e.weight = Cardinality(PairPositions(e.source, e.target))

\* two records, one without a list or with a single domain, the other adding
\* a pair counted twice and a node counted twice
C5_Witness ==
    /\ Built
    /\ Len(Lists) = 2
    /\ Len(Lists[1]) <= 1
    /\ \E n \in Nodes : n.size = 2
    /\ \E e \in Edges : e.weight = 2 /\ e.source # e.target

\* C6 as stated: every node's size is the number of experiences whose
\* domains list contains that domain, a repeated domain counting once.
C6_SizeIsNumberOfRecords ==
    Built => \A n \in Nodes : n.size = Cardinality(RecordsWith(n.id))

\* C6, amended: every node's size is the number of experiences whose list
\* contains the domain when no record repeats that domain, and is larger
\* when some record does: every list position holding it counts.
C6_SizeCountsRepetitions ==
    Built =>
        \A n \in Nodes :
            /\ ~Repeated(n.id) => n.size = Cardinality(RecordsWith(n.id))
            /\ Repeated(n.id) => n.size > Cardinality(RecordsWith(n.id))
            /\ n.size >= Cardinality(RecordsWith(n.id))

\* a domain in two records, repeated in one of them: size 3
C6_Witness ==
    /\ Built
    /\ \E n \in Nodes :
          /\ Repeated(n.id)
          /\ Cardinality(RecordsWith(n.id)) = 2
          /\ n.size = 3

\* C7: whatever the order of domains inside each record, no two nodes have
\* the same id, no two edges stand for the same unordered pair, and every
\* edge has source <= target in string order.
C7_NodesAndEdgesUniqueAndOrdered ==
    Built =>
        /\ \A n \in Nodes : CopiesIn(n, ret.v.nodes) = 1
        /\ \A e \in Edges : CopiesIn(e, ret.v.edges) = 1
        /\ \A n1, n2 \in Nodes : n1.id = n2.id => n1 = n2
        /\ \A e1, e2 \in Edges :
              {e1.source, e1.target} = {e2.source, e2.target} => e1 = e2
        /\ \A e \in Edges : e.source = e.target \/ StrLt(e.source, e.target)

\* the same two domains in ascending order in one record and in descending
\* order in the other: one edge, of weight 2
C7_Witness ==
    /\ Built
    /\ Len(Lists) = 2
    /\ Len(Lists[1]) = 2
    /\ StrLt(Lists[1][1], Lists[1][2])
    /\ Lists[2] = <<Lists[1][2], Lists[1][1]>>
    /\ Cardinality(Edges) = 1
    /\ \A e \in Edges : e.weight = 2

\* C8 as stated: every edge has source strictly less than target, also when
\* a record's list repeats a domain.
C8_EdgesStrictlyOrdered ==
    Built => \A e \in Edges : StrLt(e.source, e.target)

\* C8, amended: every edge has source <= target in string order; source is
\* strictly less than target except in an edge from a domain to itself, and
\* there is such an edge exactly for each domain that some record's list
\* holds at two positions.
C8_EdgesOrderedSelfPairsFromRepeats ==
    Built =>
        /\ \A e \in Edges :
              \/ StrLt(e.source, e.target)
              \/ (e.source = e.target /\ Repeated(e.source))
        /\ \A d \in AllDomains :
              Repeated(d) => \E e \in Edges : e.source = d /\ e.target = d

\* a record that repeats a domain beside another one: an edge from the
\* domain to itself and a strictly ordered edge
C8_Witness ==
    /\ Built
    /\ \E e \in Edges : e.source = e.target
    /\ \E e \in Edges : StrLt(e.source, e.target)
    /\ \E i \in 1..Len(Lists) :
          Len(Lists[i]) = 3 /\ StrLt(Lists[i][2], Lists[i][1])

(***************************************************************************)
(* Claims about jaccard_similarity.                                        *)
(***************************************************************************)
\* two texts that decode were given to jaccard_similarity
Scored ==
    /\ op = "jaccard_similarity"
    /\ from_str_VecString(args[1]).ok
    /\ from_str_VecString(args[2]).ok

ElementsOf(json) == {json.a[k].s : k \in 1..Len(json.a)}

\* C9: for decodable A and B the result is exactly 0 when both sets are
\* empty and otherwise |A n B| / |A u B| over the deduplicated sets; it lies
\* in [0,1], is 1 iff the two sets are equal and non-empty, and depends on
\* the inputs only through their sets of elements.
C9_JaccardIsIntersectionOverUnion ==
    Scored =>
        LET A == ElementsOf(args[1])
            B == ElementsOf(args[2])
        IN  /\ ret.ok
            /\ ret.v.den > 0
            /\ (A \cup B = {}) => ret.v = [num |-> 0, den |-> 1]
            /\ (A \cup B # {}) =>
                  ret.v.num * Cardinality(A \cup B)
                      = ret.v.den * Cardinality(A \cap B)
            /\ 0 <= ret.v.num /\ ret.v.num <= ret.v.den
            /\ (ret.v.num = ret.v.den) <=> (A = B /\ A # {})

\* inputs with a duplicate, overlapping in one of three elements: 1/3
C9_Witness ==
    /\ Scored
    /\ Len(args[1].a) > Cardinality(ElementsOf(args[1]))
    /\ Cardinality(ElementsOf(args[1]) \cup ElementsOf(args[2])) = 3
    /\ ret.v = [num |-> 1, den |-> 3]

\* C10: the result for (A, B) is the result for (B, A).
C10_JaccardSymmetric ==
    Scored => ret = jaccard_similarity(args[2], args[1])

\* sets of different sizes that overlap
C10_Witness ==
    /\ Scored
    /\ Cardinality(ElementsOf(args[1])) = 1
    /\ Cardinality(ElementsOf(args[2])) = 2
    /\ ret.v = [num |-> 1, den |-> 2]

=============================================================================
